---- MODULE Spec2Model ----
(***************************************************************************)
(* Model of the train-signalling firmware: the H/V and Ks lamp state       *)
(* machines (src/src/signals.rs), the command parser (src/src/commands.rs) *)
(* and the foreground loop with its receive interrupt (src/src/main.rs).   *)
(*                                                                         *)
(* Two specifications share the variables:                                 *)
(*   SpecSignals  a signal object (HVMainSignal, HVAnnouncementSignal,     *)
(*                HVSignalGroup or KsSignal) of any lamp configuration,    *)
(*                driven by a caller that checks supports_aspect first;    *)
(*   Spec         the firmware: boot, foreground loop, command dispatch,   *)
(*                with each line delivered by a burst of receive           *)
(*                interrupts while the foreground sleeps.                  *)
(* A pin write is one step, so every intermediate lamp state is a state.   *)
(***************************************************************************)
EXTENDS Integers, Sequences, FiniteSets, TLC

VARIABLES
  cfg,            \* the lamps that exist and the construction flags (fixed)
  lamp,           \* lamp name -> TRUE (pin high, lit) / FALSE (pin low)
  pc,             \* position of the foreground code
  ret,            \* position to continue at when switch_to_aspect returns
  writes,         \* pin writes the running switch_to_aspect still has to do
  trace,          \* pin writes the running/last switch_to_aspect has done
  call,           \* the running/last switch_to_aspect call
  eeprom,         \* the persisted byte at EEPROM address 0
  SERIAL_BUFFER,  \* the interrupt-side queue (ArrayVec<u8, 32>)
  serial_buffer,  \* the foreground line-accumulation buffer (Vec<u8>)
  line,           \* the completed line being processed (with its newline)
  result,         \* get_next_command's result for that line
  tx,             \* bytes written to the serial link while processing it
  snap,           \* lamps and persisted byte when the line was split off
                  \* (during boot: when the device was reset)
  shown,          \* the aspect each signal was last switched to completely
  received        \* the bytes USART_RX has read since the last feed, preceded
                  \* by the bytes the device held at that feed

vars == <<cfg, lamp, pc, ret, writes, trace, call, eeprom, SERIAL_BUFFER,
          serial_buffer, line, result, tx, snap, shown, received>>

----------------------------------------------------------------------------
(* Bounds *)

\* longest line content (bytes before the newline) the sender transmits
MaxLineLen == 3

\* longest line content handed to the parser on its own
MaxParserLen == 4

\* most bytes sent ahead of the foreground (held by the device, not yet
\* split off as a line) when bytes arrive one by one
MaxPending == 4

\* longest run of bytes without a newline sent ahead of the foreground
MaxFlood == 34

----------------------------------------------------------------------------
(* Program constants *)

SIGNAL_ID == <<"F">>

\* capacity of SERIAL_BUFFER
SERIAL_BUFFER_CAPACITY == 32

LF == "\n"

----------------------------------------------------------------------------
(* Aspects *)

HVMainSignalAspect == {"Stop", "Proceed", "ProceedSlow", "Deactivated", "Dark"}

HVAnnouncementSignalAspect ==
  {"ExpectStop", "ExpectProceed", "ExpectProceedSlow", "Deactivated", "Dark"}

KsSignalAspect == {"Stop", "Proceed", "ExpectStop", "Deactivated", "Dark"}

command_id(aspect) ==
  CASE aspect = "Stop"        -> "0"
    [] aspect = "Proceed"     -> "1"
    [] aspect = "ProceedSlow" -> "2"
    [] aspect = "Deactivated" -> "A"
    [] aspect = "Dark"        -> "D"

\* a from_command_id that recognises the digits only
from_command_id_digits_only(byte) ==
  CASE byte = "0" -> "Stop"
    [] byte = "1" -> "Proceed"
    [] byte = "2" -> "ProceedSlow"
    [] OTHER      -> "None"

\* "None" stands for Option::None
from_command_id(byte) ==
  CASE byte = "0" -> "Stop"
    [] byte = "1" -> "Proceed"
    [] byte = "2" -> "ProceedSlow"
    [] byte = "A" -> "Deactivated"
    [] byte = "D" -> "Dark"
    [] OTHER      -> "None"

\* impl From<HVMainSignalAspect> for HVAnnouncementSignalAspect
AnnouncementFrom(aspect) ==
  CASE aspect = "Stop"        -> "ExpectStop"
    [] aspect = "Proceed"     -> "ExpectProceed"
    [] aspect = "ProceedSlow" -> "ExpectProceedSlow"
    [] aspect = "Deactivated" -> "Deactivated"
    [] aspect = "Dark"        -> "Dark"

----------------------------------------------------------------------------
(* Lamps *)

MainLamps == {"main.red_lamp_1", "main.yellow_lamp", "main.green_lamp",
              "main.notice_lamp"}

AnnLamps == {"ann.green_lamp_upper", "ann.green_lamp_lower",
             "ann.yellow_lamp_upper", "ann.yellow_lamp_lower",
             "ann.notice_lamp"}

RepLamps == {"group.repeater_signal_notice_lamp"}

KsLamps == {"ks.red_lamp", "ks.yellow_lamp", "ks.green_lamp", "ks.notice_lamp"}

Lamps == MainLamps \cup AnnLamps \cup RepLamps \cup KsLamps

AllDark == [l \in Lamps |-> FALSE]

\* ExtraKsPins::has_red_lamp / has_yellow_lamp
has_red_lamp(c) == c.ks_pins \in {"MultiBlockSignal", "MainSignal"}

has_yellow_lamp(c) == c.ks_pins \in {"MultiBlockSignal", "AnnouncementSignal"}

\* the lamp fields that hold a pin (Some(pin) or a mandatory pin)
Present(c) ==
  {"main.red_lamp_1", "main.green_lamp",
   "ann.green_lamp_upper", "ann.green_lamp_lower",
   "ann.yellow_lamp_upper", "ann.yellow_lamp_lower", "ks.green_lamp"}
  \cup (IF c.yellow_lamp THEN {"main.yellow_lamp"} ELSE {})
  \cup (IF c.main_notice THEN {"main.notice_lamp"} ELSE {})
  \cup (IF c.ann_notice THEN {"ann.notice_lamp"} ELSE {})
  \cup (IF c.repeater THEN {"group.repeater_signal_notice_lamp"} ELSE {})
  \cup (IF has_red_lamp(c) THEN {"ks.red_lamp"} ELSE {})
  \cup (IF has_yellow_lamp(c) THEN {"ks.yellow_lamp"} ELSE {})
  \cup (IF c.ks_notice THEN {"ks.notice_lamp"} ELSE {})

\* pin.set_high() / pin.set_low() on a mandatory pin: one pin write
Set(l, state) == << <<l, state>> >>

\* a switch_optionally that drops the write
switch_optionally_dropped(c, l, state) == << >>

\* switch_optionally: a pin write if the lamp exists, nothing otherwise
switch_optionally(c, l, state) ==
  IF l \in Present(c) THEN << <<l, state>> >> ELSE << >>

\* panic!(..): the call does not return
PANIC == << <<"panic", TRUE>> >>

----------------------------------------------------------------------------
(* HVMainSignal *)

HVMainSignal_supports_aspect(c, aspect) ==
  CASE aspect \in {"Stop", "Dark", "Proceed"} -> TRUE
    [] aspect = "ProceedSlow" -> c.yellow_lamp
    [] aspect = "Deactivated" -> c.main_notice

\* an HVMainSignal::switch_to_aspect that lights green before yellow
HVMainSignal_switch_to_aspect_green_first(c, aspect) ==
  CASE aspect = "Stop" ->
         Set("main.red_lamp_1", TRUE)
         \o Set("main.green_lamp", FALSE)
         \o switch_optionally(c, "main.yellow_lamp", FALSE)
         \o switch_optionally(c, "main.notice_lamp", FALSE)
    [] aspect = "Proceed" ->
         Set("main.green_lamp", TRUE)
         \o Set("main.red_lamp_1", FALSE)
         \o switch_optionally(c, "main.yellow_lamp", FALSE)
         \o switch_optionally(c, "main.notice_lamp", FALSE)
    [] aspect = "ProceedSlow" ->
         IF ~c.yellow_lamp THEN PANIC
         ELSE Set("main.green_lamp", TRUE)
              \o switch_optionally(c, "main.yellow_lamp", TRUE)
              \o Set("main.red_lamp_1", FALSE)
              \o switch_optionally(c, "main.notice_lamp", FALSE)
    [] aspect = "Deactivated" ->
         IF ~c.main_notice THEN PANIC
         ELSE switch_optionally(c, "main.notice_lamp", TRUE)
              \o switch_optionally(c, "main.yellow_lamp", FALSE)
              \o Set("main.green_lamp", FALSE)
              \o Set("main.red_lamp_1", FALSE)
    [] aspect = "Dark" ->
         switch_optionally(c, "main.notice_lamp", FALSE)
         \o switch_optionally(c, "main.yellow_lamp", FALSE)
         \o Set("main.green_lamp", FALSE)
         \o Set("main.red_lamp_1", FALSE)

\* the pin writes of HVMainSignal::switch_to_aspect, in program order
HVMainSignal_switch_to_aspect(c, aspect) ==
  CASE aspect = "Stop" ->
         Set("main.red_lamp_1", TRUE)
         \o Set("main.green_lamp", FALSE)
         \o switch_optionally(c, "main.yellow_lamp", FALSE)
         \o switch_optionally(c, "main.notice_lamp", FALSE)
    [] aspect = "Proceed" ->
         Set("main.green_lamp", TRUE)
         \o Set("main.red_lamp_1", FALSE)
         \o switch_optionally(c, "main.yellow_lamp", FALSE)
         \o switch_optionally(c, "main.notice_lamp", FALSE)
    [] aspect = "ProceedSlow" ->
         IF ~c.yellow_lamp THEN PANIC
         ELSE switch_optionally(c, "main.yellow_lamp", TRUE)
              \o Set("main.green_lamp", TRUE)
              \o Set("main.red_lamp_1", FALSE)
              \o switch_optionally(c, "main.notice_lamp", FALSE)
    [] aspect = "Deactivated" ->
         IF ~c.main_notice THEN PANIC
         ELSE switch_optionally(c, "main.notice_lamp", TRUE)
              \o switch_optionally(c, "main.yellow_lamp", FALSE)
              \o Set("main.green_lamp", FALSE)
              \o Set("main.red_lamp_1", FALSE)
    [] aspect = "Dark" ->
         switch_optionally(c, "main.notice_lamp", FALSE)
         \o switch_optionally(c, "main.yellow_lamp", FALSE)
         \o Set("main.green_lamp", FALSE)
         \o Set("main.red_lamp_1", FALSE)

----------------------------------------------------------------------------
(* HVAnnouncementSignal *)

HVAnnouncementSignal_supports_aspect(c, aspect) ==
  IF aspect = "Deactivated" THEN c.ann_notice ELSE TRUE

\* a notice_lamp_for_distance that gives PinState::High at any distance
notice_lamp_for_distance_always_high(c) == TRUE

\* PinState::High is TRUE
notice_lamp_for_distance(c) == c.is_repeater_or_reduced_distance

HVAnnouncementSignal_switch_to_aspect(c, aspect) ==
  switch_optionally(c, "ann.notice_lamp", notice_lamp_for_distance(c))
  \o CASE aspect = "ExpectStop" ->
            Set("ann.yellow_lamp_upper", TRUE)
            \o Set("ann.yellow_lamp_lower", TRUE)
            \o Set("ann.green_lamp_lower", FALSE)
            \o Set("ann.green_lamp_upper", FALSE)
       [] aspect = "ExpectProceed" ->
            Set("ann.green_lamp_lower", TRUE)
            \o Set("ann.green_lamp_upper", TRUE)
            \o Set("ann.yellow_lamp_upper", FALSE)
            \o Set("ann.yellow_lamp_lower", FALSE)
       [] aspect = "ExpectProceedSlow" ->
            Set("ann.yellow_lamp_lower", TRUE)
            \o Set("ann.green_lamp_upper", TRUE)
            \o Set("ann.yellow_lamp_upper", FALSE)
            \o Set("ann.green_lamp_lower", FALSE)
       [] aspect = "Deactivated" ->
            IF ~c.ann_notice THEN PANIC
            ELSE switch_optionally(c, "ann.notice_lamp", TRUE)
                 \o Set("ann.yellow_lamp_upper", FALSE)
                 \o Set("ann.yellow_lamp_lower", FALSE)
                 \o Set("ann.green_lamp_lower", FALSE)
                 \o Set("ann.green_lamp_upper", FALSE)
       [] aspect = "Dark" ->
            Set("ann.green_lamp_lower", FALSE)
            \o Set("ann.green_lamp_upper", FALSE)
            \o Set("ann.yellow_lamp_upper", FALSE)
            \o Set("ann.yellow_lamp_lower", FALSE)
            \o switch_optionally(c, "ann.notice_lamp", FALSE)

----------------------------------------------------------------------------
(* HVSignalGroup *)

\* a supports_aspect that asks the announcement signal only
HVSignalGroup_supports_aspect_announcement_only(c, aspect) ==
  HVAnnouncementSignal_supports_aspect(c, AnnouncementFrom(aspect))

HVSignalGroup_supports_aspect(c, aspect) ==
  /\ HVMainSignal_supports_aspect(c, aspect)
  /\ HVAnnouncementSignal_supports_aspect(c, AnnouncementFrom(aspect))

\* a switch_to_aspect that leaves the announcement signal as it was
HVSignalGroup_switch_to_aspect_main_only(c, aspect) ==
  HVMainSignal_switch_to_aspect(c, aspect)
  \o switch_optionally(c, "group.repeater_signal_notice_lamp",
                       aspect # "Dark")

\* main signal first, then the announcement signal, then the repeater lamp
HVSignalGroup_switch_to_aspect(c, aspect) ==
  HVMainSignal_switch_to_aspect(c, aspect)
  \o HVAnnouncementSignal_switch_to_aspect(c, AnnouncementFrom(aspect))
  \o switch_optionally(c, "group.repeater_signal_notice_lamp",
                       aspect # "Dark")

----------------------------------------------------------------------------
(* KsSignal *)

KsSignal_supports_aspect(c, aspect) ==
  CASE aspect \in {"Dark", "Proceed"} -> TRUE
    [] aspect = "Stop"        -> has_red_lamp(c)
    [] aspect = "ExpectStop"  -> has_yellow_lamp(c)
    [] aspect = "Deactivated" -> c.ks_notice

KsSignal_switch_to_aspect(c, aspect) ==
  CASE aspect = "Stop" ->
         IF ~has_red_lamp(c) THEN PANIC
         ELSE switch_optionally(c, "ks.red_lamp", TRUE)
              \o Set("ks.green_lamp", FALSE)
              \o switch_optionally(c, "ks.yellow_lamp", FALSE)
              \o switch_optionally(c, "ks.notice_lamp", FALSE)
    [] aspect = "Proceed" ->
         Set("ks.green_lamp", TRUE)
         \o switch_optionally(c, "ks.red_lamp", FALSE)
         \o switch_optionally(c, "ks.yellow_lamp", FALSE)
         \o switch_optionally(c, "ks.notice_lamp", FALSE)
    [] aspect = "ExpectStop" ->
         IF ~has_yellow_lamp(c) THEN PANIC
         ELSE switch_optionally(c, "ks.yellow_lamp", TRUE)
              \o Set("ks.green_lamp", FALSE)
              \o switch_optionally(c, "ks.red_lamp", FALSE)
              \o switch_optionally(c, "ks.notice_lamp", FALSE)
    [] aspect = "Deactivated" ->
         IF ~c.ks_notice THEN PANIC
         ELSE switch_optionally(c, "ks.notice_lamp", TRUE)
              \o switch_optionally(c, "ks.yellow_lamp", FALSE)
              \o Set("ks.green_lamp", FALSE)
              \o switch_optionally(c, "ks.red_lamp", FALSE)
    [] aspect = "Dark" ->
         switch_optionally(c, "ks.notice_lamp", FALSE)
         \o Set("ks.green_lamp", FALSE)
         \o switch_optionally(c, "ks.yellow_lamp", FALSE)
         \o switch_optionally(c, "ks.red_lamp", FALSE)

----------------------------------------------------------------------------
(* Command parser *)

\* the bytes of s before the first occurrence of byte b (all of s if none)
RECURSIVE TakeUntil(_, _)
TakeUntil(s, b) ==
  IF s = << >> \/ Head(s) = b THEN << >>
  ELSE <<Head(s)>> \o TakeUntil(Tail(s), b)

\* the bytes of s after the first occurrence of byte b (s must contain b)
RECURSIVE DropThrough(_, _)
DropThrough(s, b) ==
  IF Head(s) = b THEN Tail(s) ELSE DropThrough(Tail(s), b)

Contains(s, b) == \E i \in 1..Len(s) : s[i] = b

\* read_line_or_to_buffer_capacity: the bytes up to the line terminator,
\* which is not part of the returned buffer
read_line_or_to_buffer_capacity(bytes) ==
  TakeUntil(TakeUntil(bytes, LF), "\r")

Ok(hv, ks) == [kind |-> "Ok", hv |-> hv, ks |-> ks, why |-> << >>]

\* CommandError(None): nothing to report
Ignored == [kind |-> "Err", hv |-> "None", ks |-> "None", why |-> << >>]

\* CommandError(Some(why)): why is the text of the error line
Error(why) == [kind |-> "Err", hv |-> "None", ks |-> "None", why |-> why]

NoResult == [kind |-> "None", hv |-> "None", ks |-> "None", why |-> << >>]

\* an error line that carries the code 1
ErrorLine_code1(message, offending) ==
  SIGNAL_ID \o <<":", "E", ":", "1", "#", message>> \o offending \o <<LF>>

\* uwriteln!("{}:E:0#<message> {:?}", SIGNAL_ID, offending)
ErrorLine(message, offending) ==
  SIGNAL_ID \o <<":", "E", ":", "0", "#", message>> \o offending \o <<LF>>

\* a parser that maps the codes 1 and 2 to each other's aspect
match_command_swapped(command) ==
  CASE command = <<"A">> -> Ok("Deactivated", "Deactivated")
    [] command = <<"D">> -> Ok("Dark", "Dark")
    [] command = <<"0">> -> Ok("Stop", "Stop")
    [] command = <<"1">> -> Ok("ProceedSlow", "ExpectStop")
    [] command = <<"2">> -> Ok("Proceed", "Proceed")
    [] OTHER -> Error(ErrorLine("Unknown command ", command))

\* the match on the command section
match_command(command) ==
  CASE command = <<"A">> -> Ok("Deactivated", "Deactivated")
    [] command = <<"D">> -> Ok("Dark", "Dark")
    [] command = <<"0">> -> Ok("Stop", "Stop")
    [] command = <<"1">> -> Ok("Proceed", "Proceed")
    [] command = <<"2">> -> Ok("ProceedSlow", "ExpectStop")
    [] OTHER -> Error(ErrorLine("Unknown command ", command))

\* a parser that does not compare the identifier section with SIGNAL_ID
get_next_command_any_id(bytes) ==
  LET content        == read_line_or_to_buffer_capacity(bytes)
      before_comment == TakeUntil(content, "#")
      command        == TakeUntil(DropThrough(before_comment, ":"), ":")
  IN  IF before_comment = << >> THEN Ignored
      ELSE IF ~Contains(before_comment, ":")
        THEN Error(ErrorLine("Missing command in ", before_comment))
      ELSE match_command(command)

\* a parser that reports a line addressed to another identifier
get_next_command_reports_foreign(bytes) ==
  LET content        == read_line_or_to_buffer_capacity(bytes)
      before_comment == TakeUntil(content, "#")
      signal_id      == TakeUntil(before_comment, ":")
      command        == TakeUntil(DropThrough(before_comment, ":"), ":")
  IN  IF signal_id # SIGNAL_ID
        THEN Error(ErrorLine("Missing signal ID in ", before_comment))
      ELSE IF ~Contains(before_comment, ":")
        THEN Error(ErrorLine("Missing command in ", before_comment))
      ELSE match_command(command)

\* get_next_command on one line: the section logic of the parser, with
\* "continue" without output read as CommandError(None) and "continue"
\* after an error line as CommandError(Some(line))
get_next_command(bytes) ==
  LET content        == read_line_or_to_buffer_capacity(bytes)
      before_comment == TakeUntil(content, "#")
      signal_id      == TakeUntil(before_comment, ":")
      command        == TakeUntil(DropThrough(before_comment, ":"), ":")
  IN  IF before_comment = << >> THEN Ignored
      ELSE IF signal_id # SIGNAL_ID THEN Ignored
      ELSE IF ~Contains(before_comment, ":")
        THEN Error(ErrorLine("Missing command in ", before_comment))
      ELSE match_command(command)

----------------------------------------------------------------------------
(* Configurations *)

NoLamps ==
  [dut |-> "none", yellow_lamp |-> FALSE, main_notice |-> FALSE,
   ann_notice |-> FALSE, is_repeater_or_reduced_distance |-> FALSE,
   repeater |-> FALSE, ks_pins |-> "MultiBlockSignal", ks_notice |-> FALSE]

\* HVMainSignal::new, with_yellow_lamp, with_notice_lamp
HVMainSignalConfigs ==
  {[NoLamps EXCEPT !.dut = "HVMainSignal", !.yellow_lamp = y, !.main_notice = n] :
     y \in BOOLEAN, n \in BOOLEAN}

\* HVAnnouncementSignal::new, with_notice_lamp, is_repeater_or_reduced_distance
HVAnnouncementSignalConfigs ==
  {[NoLamps EXCEPT !.dut = "HVAnnouncementSignal", !.ann_notice = n,
                   !.is_repeater_or_reduced_distance = r] :
     n \in BOOLEAN, r \in BOOLEAN}

\* HVSignalGroup::new, with_slow_aspect, with_deactivation_capability,
\* with_reduced_distance(None | Some(lamp)), with_repeater_signal
HVSignalGroupConfigs ==
  {[NoLamps EXCEPT !.dut = "HVSignalGroup", !.yellow_lamp = slow,
                   !.main_notice = deact,
                   !.ann_notice = (deact \/ reduced = "Some"),
                   !.is_repeater_or_reduced_distance = (reduced # "no"),
                   !.repeater = rep] :
     slow \in BOOLEAN, deact \in BOOLEAN, reduced \in {"no", "None", "Some"},
     rep \in BOOLEAN}

\* KsSignal::new_main, new_announcement, new_multi_block, with_notice_lamp
KsSignalConfigs ==
  {[NoLamps EXCEPT !.dut = "KsSignal", !.ks_pins = k, !.ks_notice = n] :
     k \in {"MultiBlockSignal", "MainSignal", "AnnouncementSignal"},
     n \in BOOLEAN}

\* main(): the HVSignalGroup built from HAS_SLOW_ASPECT,
\* HAS_DEACTIVATION_CAPABILITY and HAS_REDUCED_SIGNAL_DISTANCE, and the
\* KsSignal::new_multi_block without notice lamp
FirmwareConfigs ==
  {[NoLamps EXCEPT !.dut = "firmware", !.yellow_lamp = HAS_SLOW_ASPECT,
                   !.main_notice = HAS_DEACTIVATION_CAPABILITY,
                   !.ann_notice = HAS_DEACTIVATION_CAPABILITY,
                   !.is_repeater_or_reduced_distance = HAS_REDUCED_SIGNAL_DISTANCE] :
     HAS_SLOW_ASPECT \in BOOLEAN, HAS_DEACTIVATION_CAPABILITY \in BOOLEAN,
     HAS_REDUCED_SIGNAL_DISTANCE \in BOOLEAN}

----------------------------------------------------------------------------
(* switch_to_aspect calls, one pin write per step *)

Aspects(obj) ==
  CASE obj = "HVMainSignal"         -> HVMainSignalAspect
    [] obj = "HVAnnouncementSignal" -> HVAnnouncementSignalAspect
    [] obj = "HVSignalGroup"        -> HVMainSignalAspect
    [] obj = "KsSignal"             -> KsSignalAspect

supports_aspect(c, obj, aspect) ==
  CASE obj = "HVMainSignal"         -> HVMainSignal_supports_aspect(c, aspect)
    [] obj = "HVAnnouncementSignal" -> HVAnnouncementSignal_supports_aspect(c, aspect)
    [] obj = "HVSignalGroup"        -> HVSignalGroup_supports_aspect(c, aspect)
    [] obj = "KsSignal"             -> KsSignal_supports_aspect(c, aspect)

switch_to_aspect(c, obj, aspect) ==
  CASE obj = "HVMainSignal"         -> HVMainSignal_switch_to_aspect(c, aspect)
    [] obj = "HVAnnouncementSignal" -> HVAnnouncementSignal_switch_to_aspect(c, aspect)
    [] obj = "HVSignalGroup"        -> HVSignalGroup_switch_to_aspect(c, aspect)
    [] obj = "KsSignal"             -> KsSignal_switch_to_aspect(c, aspect)

NoCall ==
  [obj |-> "none", aspect |-> "None", old |-> "None", state |-> "none",
   before |-> AllDark]

NothingShown == [hv |-> "None", ks |-> "None"]

\* which entry of shown a signal object is
Slot(obj) == IF obj = "KsSignal" THEN "ks" ELSE "hv"

\* enter obj.switch_to_aspect(aspect); continue at after when it returns
Enter(obj, aspect, after) ==
  /\ call' = [obj |-> obj, aspect |-> aspect, old |-> shown[Slot(obj)],
              state |-> "running", before |-> lamp]
  /\ writes' = switch_to_aspect(cfg, obj, aspect)
  /\ trace' = << >>
  /\ ret' = after
  /\ pc' = "switching"

\* the next pin write of the running call; the last one returns Ok(())
PinWrite ==
  /\ pc = "switching"
  /\ writes # << >>
  /\ LET w == Head(writes) IN
       IF w[1] = "panic"
       THEN /\ pc' = "panic"
            /\ call' = [call EXCEPT !.state = "panicked"]
            /\ writes' = << >>
            /\ UNCHANGED <<lamp, trace, shown>>
       ELSE /\ lamp' = [lamp EXCEPT ![w[1]] = w[2]]
            /\ trace' = Append(trace, w)
            /\ writes' = Tail(writes)
            /\ IF Tail(writes) = << >>
               THEN /\ pc' = ret
                    /\ call' = [call EXCEPT !.state = "done"]
                    /\ shown' = [shown EXCEPT ![Slot(call.obj)] = call.aspect]
               ELSE UNCHANGED <<pc, call, shown>>
  /\ UNCHANGED <<cfg, received, ret, eeprom, SERIAL_BUFFER, serial_buffer, line, result,
                 tx, snap>>

----------------------------------------------------------------------------
(* A signal object driven by a caller that keeps the contract *)

InitCommon ==
  /\ lamp = AllDark
  /\ ret = "none"
  /\ writes = << >>
  /\ trace = << >>
  /\ call = NoCall
  /\ SERIAL_BUFFER = << >>
  /\ serial_buffer = << >>
  /\ line = << >>
  /\ result = NoResult
  /\ tx = << >>
  /\ shown = NothingShown
  /\ received = << >>

InitSignals ==
  /\ cfg \in HVMainSignalConfigs \cup HVAnnouncementSignalConfigs
             \cup HVSignalGroupConfigs \cup KsSignalConfigs
  /\ pc = "idle"
  /\ eeprom = "0"
  /\ snap = [lamp |-> AllDark, eeprom |-> "0"]
  /\ InitCommon

\* the caller checks supports_aspect, then calls switch_to_aspect
Call ==
  /\ pc = "idle"
  /\ \E aspect \in Aspects(cfg.dut) :
       /\ supports_aspect(cfg, cfg.dut, aspect)
       /\ Enter(cfg.dut, aspect, "idle")
  /\ UNCHANGED <<cfg, received, lamp, eeprom, SERIAL_BUFFER, serial_buffer, line, result,
                 tx, snap, shown>>

NextSignals == Call \/ PinWrite

SpecSignals == InitSignals /\ [][NextSignals]_vars

----------------------------------------------------------------------------
(* The firmware: main() and the USART_RX interrupt *)

\* the bytes the sender puts into a line, besides the newline
Alphabet == {"F", "G", ":", "0", "1", "2", "A", "D", "#", " "}

\* the line contents the sender transmits
SentLines == UNION {[1..n -> Alphabet] : n \in 0..MaxLineLen}

\* what EEPROM address 0 may hold at power-on ("erased": 0xFF, no identifier)
EepromAtPowerOn == {"0", "1", "2", "A", "D", "erased"}

Init ==
  /\ cfg \in FirmwareConfigs
  /\ pc = "boot"
  /\ eeprom \in EepromAtPowerOn
  /\ snap = [lamp |-> AllDark, eeprom |-> eeprom]
  /\ InitCommon

\* signal_group.switch_to_aspect(Stop) once the pins are outputs (low)
Boot ==
  /\ pc = "boot"
  /\ Enter("HVSignalGroup", "Stop", "boot_restore")
  /\ UNCHANGED <<cfg, received, lamp, eeprom, SERIAL_BUFFER, serial_buffer, line, result,
                 tx, snap, shown>>

\* a boot that does not restore the saved aspect
BootRestore_skipped ==
  /\ pc = "boot_restore"
  /\ pc' = "feed"
  /\ UNCHANGED <<cfg, received, lamp, ret, writes, trace, call, eeprom,
                 SERIAL_BUFFER, serial_buffer, line, result, tx, snap, shown>>

\* eeprom.read, then the saved aspect if it is recognised and supported
BootRestore ==
  /\ pc = "boot_restore"
  /\ LET saved_aspect == from_command_id(eeprom) IN
       IF /\ saved_aspect # "None"
          /\ HVSignalGroup_supports_aspect(cfg, saved_aspect)
       THEN Enter("HVSignalGroup", saved_aspect, "feed")
       ELSE /\ pc' = "feed"
            /\ UNCHANGED <<ret, writes, trace, call>>
  /\ UNCHANGED <<cfg, received, lamp, eeprom, SERIAL_BUFFER, serial_buffer, line, result,
                 tx, snap, shown>>

\* wdt.feed() at the top of the loop; the previous line's record ends here
Feed ==
  /\ pc = "feed"
  /\ pc' = "sleep"
  /\ line' = << >>
  /\ result' = NoResult
  /\ tx' = << >>
  /\ call' = NoCall
  /\ trace' = << >>
  /\ snap' = [lamp |-> lamp, eeprom |-> eeprom]
  /\ received' = serial_buffer \o SERIAL_BUFFER
  /\ UNCHANGED <<cfg, lamp, ret, writes, eeprom, SERIAL_BUFFER, serial_buffer,
                 shown>>

\* USART_RX for each byte of one line, while the foreground sleeps
ReceiveLine ==
  /\ pc = "sleep"
  /\ SERIAL_BUFFER = << >>
  /\ serial_buffer = << >>
  /\ \E content \in SentLines :
       /\ Len(content) + 1 <= SERIAL_BUFFER_CAPACITY
       /\ SERIAL_BUFFER' = content \o <<LF>>
       /\ received' = received \o content \o <<LF>>
  /\ UNCHANGED <<cfg, lamp, pc, ret, writes, trace, call, eeprom, serial_buffer,
                 line, result, tx, snap, shown>>

\* avr_device::asm::sleep() returns after the interrupt
Sleep ==
  /\ pc = "sleep"
  /\ SERIAL_BUFFER # << >>
  /\ pc' = "drain"
  /\ UNCHANGED <<cfg, received, lamp, ret, writes, trace, call, eeprom, SERIAL_BUFFER,
                 serial_buffer, line, result, tx, snap, shown>>

\* a drain that copies the queue without clearing it
Drain_without_clear ==
  /\ pc = "drain"
  /\ serial_buffer' = serial_buffer \o SERIAL_BUFFER
  /\ pc' = "find"
  /\ UNCHANGED <<cfg, received, lamp, ret, writes, trace, call, eeprom,
                 SERIAL_BUFFER, line, result, tx, snap, shown>>

\* the critical section: copy the queue to the line buffer and clear it
Drain ==
  /\ pc = "drain"
  /\ serial_buffer' = serial_buffer \o SERIAL_BUFFER
  /\ SERIAL_BUFFER' = << >>
  /\ pc' = "find"
  /\ UNCHANGED <<cfg, received, lamp, ret, writes, trace, call, eeprom, line, result, tx,
                 snap, shown>>

\* find the first newline; split_off(position_of_newline + 1)
Find ==
  /\ pc = "find"
  /\ IF Contains(serial_buffer, LF)
     THEN /\ line' = TakeUntil(serial_buffer, LF) \o <<LF>>
          /\ serial_buffer' = DropThrough(serial_buffer, LF)
          /\ snap' = [lamp |-> lamp, eeprom |-> eeprom]
          /\ pc' = "echo"
     ELSE /\ pc' = "feed"
          /\ UNCHANGED <<line, serial_buffer, snap>>
  /\ UNCHANGED <<cfg, received, lamp, ret, writes, trace, call, eeprom, SERIAL_BUFFER,
                 result, tx, shown>>

\* with_serial: write every byte of the line back
Echo ==
  /\ pc = "echo"
  /\ tx' = tx \o line
  /\ pc' = "parse"
  /\ UNCHANGED <<cfg, received, lamp, ret, writes, trace, call, eeprom, SERIAL_BUFFER,
                 serial_buffer, line, result, snap, shown>>

\* let result = get_next_command(&line)
Parse ==
  /\ pc = "parse"
  /\ result' = get_next_command(line)
  /\ pc' = "dispatch"
  /\ UNCHANGED <<cfg, received, lamp, ret, writes, trace, call, eeprom, SERIAL_BUFFER,
                 serial_buffer, line, tx, snap, shown>>

\* a rejection that persists the rejected aspect
DispatchUnsupported_persisting ==
  /\ pc = "dispatch"
  /\ result.kind = "Ok"
  /\ ~HVSignalGroup_supports_aspect(cfg, result.hv)
  /\ tx' = tx \o SIGNAL_ID \o <<":", "E", ":", "1", LF>>
  /\ eeprom' = command_id(result.hv)
  /\ pc' = "feed"
  /\ UNCHANGED <<cfg, received, lamp, ret, writes, trace, call, SERIAL_BUFFER,
                 serial_buffer, line, result, snap, shown>>

\* Ok, but the group does not support the aspect: "<ID>:E:1"
DispatchUnsupported ==
  /\ pc = "dispatch"
  /\ result.kind = "Ok"
  /\ ~HVSignalGroup_supports_aspect(cfg, result.hv)
  /\ tx' = tx \o SIGNAL_ID \o <<":", "E", ":", "1", LF>>
  /\ pc' = "feed"
  /\ UNCHANGED <<cfg, received, lamp, ret, writes, trace, call, eeprom, SERIAL_BUFFER,
                 serial_buffer, line, result, snap, shown>>

\* Ok and supported: go on to persist and switch
DispatchSupported ==
  /\ pc = "dispatch"
  /\ result.kind = "Ok"
  /\ HVSignalGroup_supports_aspect(cfg, result.hv)
  /\ pc' = "eeprom_write"
  /\ UNCHANGED <<cfg, received, lamp, ret, writes, trace, call, eeprom, SERIAL_BUFFER,
                 serial_buffer, line, result, tx, snap, shown>>

\* Err(CommandError(None)) => {}
DispatchIgnored ==
  /\ pc = "dispatch"
  /\ result.kind = "Err"
  /\ result.why = << >>
  /\ pc' = "feed"
  /\ UNCHANGED <<cfg, received, lamp, ret, writes, trace, call, eeprom, SERIAL_BUFFER,
                 serial_buffer, line, result, tx, snap, shown>>

\* Err(CommandError(Some(why))): write why to the serial link
DispatchError ==
  /\ pc = "dispatch"
  /\ result.kind = "Err"
  /\ result.why # << >>
  /\ tx' = tx \o result.why
  /\ pc' = "feed"
  /\ UNCHANGED <<cfg, received, lamp, ret, writes, trace, call, eeprom, SERIAL_BUFFER,
                 serial_buffer, line, result, snap, shown>>

\* a dispatch that switches the lamps without persisting the aspect
EepromWrite_lamps_only ==
  /\ pc = "eeprom_write"
  /\ Enter("HVSignalGroup", result.hv, "ks_switch")
  /\ UNCHANGED <<cfg, received, lamp, eeprom, SERIAL_BUFFER, serial_buffer, line,
                 result, tx, snap, shown>>

\* eeprom.write(0, command_id), then signal_group.switch_to_aspect
EepromWrite ==
  /\ pc = "eeprom_write"
  /\ eeprom' = command_id(result.hv)
  /\ Enter("HVSignalGroup", result.hv, "ks_switch")
  /\ UNCHANGED <<cfg, received, lamp, SERIAL_BUFFER, serial_buffer, line, result, tx,
                 snap, shown>>

\* ks_signal.switch_to_aspect(next_ks_aspect): no supports_aspect before it
KsSwitch ==
  /\ pc = "ks_switch"
  /\ Enter("KsSignal", result.ks, "ack")
  /\ UNCHANGED <<cfg, received, lamp, eeprom, SERIAL_BUFFER, serial_buffer, line, result,
                 tx, snap, shown>>

\* serial_writeln!("{}:A:{}", SIGNAL_ID, command_id)
Ack ==
  /\ pc = "ack"
  /\ tx' = tx \o SIGNAL_ID \o <<":", "A", ":", command_id(result.hv), LF>>
  /\ pc' = "feed"
  /\ UNCHANGED <<cfg, received, lamp, ret, writes, trace, call, eeprom, SERIAL_BUFFER,
                 serial_buffer, line, result, snap, shown>>

\* after a panic the loop no longer feeds the watchdog (started with a
\* timeout of one second): the device resets, its pins start low again and
\* main() runs anew; the EEPROM keeps its byte
WatchdogReset ==
  /\ pc = "panic"
  /\ pc' = "boot"
  /\ snap' = [lamp |-> AllDark, eeprom |-> eeprom]
  /\ lamp' = AllDark
  /\ ret' = "none"
  /\ writes' = << >>
  /\ trace' = << >>
  /\ call' = NoCall
  /\ SERIAL_BUFFER' = << >>
  /\ serial_buffer' = << >>
  /\ line' = << >>
  /\ result' = NoResult
  /\ tx' = << >>
  /\ shown' = NothingShown
  /\ received' = << >>
  /\ UNCHANGED <<cfg, eeprom>>

Next ==
  \/ Boot
  \/ BootRestore
  \/ Feed
  \/ ReceiveLine
  \/ Sleep
  \/ Drain
  \/ Find
  \/ Echo
  \/ Parse
  \/ DispatchUnsupported
  \/ DispatchSupported
  \/ DispatchIgnored
  \/ DispatchError
  \/ EepromWrite
  \/ KsSwitch
  \/ Ack
  \/ PinWrite
  \/ WatchdogReset

Spec == Init /\ [][Next]_vars

\* the steps of the loop that run inside interrupt::free: the drain of the
\* shared queue, and everything that goes through with_serial (the echo,
\* E:1, the acknowledgement and the parser's error line)
interrupt_free ==
  \/ Drain
  \/ Echo
  \/ DispatchUnsupported
  \/ DispatchError
  \/ Ack

----------------------------------------------------------------------------
(* The firmware on a supply that can fail: the device may be reset at any  *)
(* point and main() starts again                                           *)

\* a reset (power cycle, watchdog) at any point of main(): the pins start
\* low again, RAM is lost, the EEPROM keeps its byte
Reset ==
  /\ pc \notin {"boot", "panic"}
  /\ pc' = "boot"
  /\ snap' = [lamp |-> lamp, eeprom |-> eeprom]
  /\ lamp' = AllDark
  /\ ret' = "none"
  /\ writes' = << >>
  /\ trace' = << >>
  /\ call' = NoCall
  /\ SERIAL_BUFFER' = << >>
  /\ serial_buffer' = << >>
  /\ line' = << >>
  /\ result' = NoResult
  /\ tx' = << >>
  /\ shown' = NothingShown
  /\ received' = << >>
  /\ UNCHANGED <<cfg, eeprom>>

NextReset == Next \/ Reset

SpecReset == Init /\ [][NextReset]_vars

----------------------------------------------------------------------------
(* The firmware with the receive interrupt taken byte by byte: USART_RX    *)
(* runs between any two steps of the foreground                            *)

\* the bytes the sender transmits
RxAlphabet == {"F", ":", "2", LF}

\* the byte of a run without newline
Filler == "F"

\* the bytes the device holds that are not yet split off as a line
Pending == serial_buffer \o SERIAL_BUFFER

\* the sender is at most MaxPending bytes ahead of the foreground, or
\* MaxFlood bytes with a run of one byte without newline
Sendable(byte) ==
  \/ Len(Pending) < MaxPending
  \/ /\ byte = Filler
     /\ \A i \in 1..Len(Pending) : Pending[i] = Filler
     /\ Len(Pending) < MaxFlood

\* the shipped build and the build without the slow aspect
RxConfigs ==
  {c \in FirmwareConfigs :
     c.main_notice /\ ~c.is_repeater_or_reduced_distance}

InitRx ==
  /\ cfg \in RxConfigs
  /\ pc = "boot"
  /\ eeprom \in {"0", "erased"}
  /\ snap = [lamp |-> AllDark, eeprom |-> eeprom]
  /\ InitCommon

\* a USART_RX that discards the byte when the queue is full
USART_RX_dropping ==
  /\ pc # "panic"
  /\ \E byte \in RxAlphabet :
       /\ Sendable(byte)
       /\ received' = Append(received, byte)
       /\ SERIAL_BUFFER' =
            IF Len(SERIAL_BUFFER) < SERIAL_BUFFER_CAPACITY
            THEN Append(SERIAL_BUFFER, byte) ELSE SERIAL_BUFFER
       /\ pc' = IF pc = "sleep" THEN "drain" ELSE pc
  /\ UNCHANGED <<cfg, lamp, ret, writes, trace, call, eeprom, serial_buffer,
                 line, result, tx, snap, shown>>

\* USART_RX: serial.read() one byte and push it to the queue; ArrayVec::push
\* panics when the queue is full.  The interrupt ends a sleep.
USART_RX ==
  /\ pc # "panic"
  /\ \E byte \in RxAlphabet :
       /\ Sendable(byte)
       /\ received' = Append(received, byte)
       /\ IF Len(SERIAL_BUFFER) < SERIAL_BUFFER_CAPACITY
          THEN /\ SERIAL_BUFFER' = Append(SERIAL_BUFFER, byte)
               /\ pc' = IF pc = "sleep" THEN "drain" ELSE pc
          ELSE /\ pc' = "panic"
               /\ UNCHANGED SERIAL_BUFFER
  /\ UNCHANGED <<cfg, lamp, ret, writes, trace, call, eeprom, serial_buffer,
                 line, result, tx, snap, shown>>

NextRx ==
  \/ Boot
  \/ BootRestore
  \/ Feed
  \/ USART_RX
  \/ Drain
  \/ Find
  \/ Echo
  \/ Parse
  \/ DispatchUnsupported
  \/ DispatchSupported
  \/ DispatchIgnored
  \/ DispatchError
  \/ EepromWrite
  \/ KsSwitch
  \/ Ack
  \/ PinWrite
  \/ WatchdogReset

SpecRx == InitRx /\ [][NextRx]_vars

----------------------------------------------------------------------------
(* The parser on its own: get_next_command applied to one line *)

ParserAlphabet == {"F", ":", "2", "#", " "}

\* a command followed by a comment: F:2 # slow down
CommentedLine ==
  <<"F", ":", "2", " ", "#", " ", "s", "l", "o", "w", " ", "d", "o", "w", "n">>

\* the line contents handed to the parser
ParserLines ==
  UNION {[1..n -> ParserAlphabet] : n \in 0..MaxParserLen} \cup {CommentedLine}

\* a completed line is in hand, the shipped constants are configured
InitParser ==
  /\ cfg = [NoLamps EXCEPT !.dut = "firmware", !.yellow_lamp = TRUE,
                           !.main_notice = TRUE, !.ann_notice = TRUE]
  /\ pc = "parse"
  /\ \E content \in ParserLines : line = content \o <<LF>>
  /\ received = line
  /\ lamp = AllDark
  /\ ret = "none"
  /\ writes = << >>
  /\ trace = << >>
  /\ call = NoCall
  /\ eeprom = "0"
  /\ SERIAL_BUFFER = << >>
  /\ serial_buffer = << >>
  /\ result = NoResult
  /\ tx = << >>
  /\ snap = [lamp |-> AllDark, eeprom |-> "0"]
  /\ shown = NothingShown

NextParser == Parse

SpecParser == InitParser /\ [][NextParser]_vars

----------------------------------------------------------------------------
(* What the claims speak of *)

Lit(S) == {l \in S : lamp[l]}

\* the lamps of an aspect, as the specification tabulates them
MainRequired(aspect) ==
  CASE aspect = "Stop"        -> {"main.red_lamp_1"}
    [] aspect = "Proceed"     -> {"main.green_lamp"}
    [] aspect = "ProceedSlow" -> {"main.yellow_lamp", "main.green_lamp"}
    [] aspect = "Deactivated" -> {"main.notice_lamp"}
    [] aspect = "Dark"        -> {}

AnnRequired(aspect) ==
  CASE aspect = "ExpectStop"        -> {"ann.yellow_lamp_upper", "ann.yellow_lamp_lower"}
    [] aspect = "ExpectProceed"     -> {"ann.green_lamp_upper", "ann.green_lamp_lower"}
    [] aspect = "ExpectProceedSlow" -> {"ann.yellow_lamp_lower", "ann.green_lamp_upper"}
    [] aspect = "Deactivated"       -> {"ann.notice_lamp"}
    [] aspect = "Dark"              -> {}

KsRequired(aspect) ==
  CASE aspect = "Stop"        -> {"ks.red_lamp"}
    [] aspect = "Proceed"     -> {"ks.green_lamp"}
    [] aspect = "ExpectStop"  -> {"ks.yellow_lamp"}
    [] aspect = "Deactivated" -> {"ks.notice_lamp"}
    [] aspect = "Dark"        -> {}

Expecting == {"ExpectStop", "ExpectProceed", "ExpectProceedSlow"}

\* the announcement lamps of an aspect on a signal marked as repeater or at
\* reduced distance: its notice lamp, if it has one, is lit with Vr0/Vr1/Vr2
AnnRequiredAt(c, aspect) ==
  AnnRequired(aspect)
  \cup (IF /\ aspect \in Expecting
           /\ c.is_repeater_or_reduced_distance
           /\ c.ann_notice
        THEN {"ann.notice_lamp"} ELSE {})

\* the announcement aspect derived from a main aspect, as the claim lists it
Derived(m) ==
  CASE m = "Stop"        -> "ExpectStop"
    [] m = "Proceed"     -> "ExpectProceed"
    [] m = "ProceedSlow" -> "ExpectProceedSlow"
    [] m = "Deactivated" -> "Deactivated"
    [] m = "Dark"        -> "Dark"

\* the aspect of a wire identifier, as the claim lists it
AspectOfCode(code) ==
  CASE code = "0" -> "Stop"
    [] code = "1" -> "Proceed"
    [] code = "2" -> "ProceedSlow"
    [] code = "A" -> "Deactivated"
    [] code = "D" -> "Dark"

Codes == {"0", "1", "2", "A", "D"}

OnMain == call.obj \in {"HVMainSignal", "HVSignalGroup"}

\* the write w occurs in the trace, and the write v occurs before its first
\* occurrence
Before(v, w) ==
  \E j \in 1..Len(trace) :
    /\ trace[j] = w
    /\ \A k \in 1..(j - 1) : trace[k] # w
    /\ \E i \in 1..(j - 1) : trace[i] = v

Written(w) == \E j \in 1..Len(trace) : trace[j] = w

\* the leading identifier section of a line: the bytes before the first
\* separator, comment sign or line end
RECURSIVE LeadingId(_)
LeadingId(l) ==
  IF l = << >> \/ Head(l) \in {":", "#", LF, "\r"} THEN << >>
  ELSE <<Head(l)>> \o LeadingId(Tail(l))

\* a line that is being, or has just been, processed
Processing == line # << >>

\* the line is addressed to another identifier
Foreign == Processing /\ LeadingId(line) # SIGNAL_ID

\* the line is empty or holds a comment only
Blank == Processing /\ Head(line) \in {"#", LF}

\* the foreground is past the parser
Parsed == result.kind # "None"

\* the line is addressed to this device
Addressed == Processing /\ LeadingId(line) = SIGNAL_ID

\* the line parsed to an aspect, which the signal group supports or not
ParsedSupported ==
  /\ Addressed
  /\ result.kind = "Ok"
  /\ HVSignalGroup_supports_aspect(cfg, result.hv)

ParsedUnsupported ==
  /\ Addressed
  /\ result.kind = "Ok"
  /\ ~HVSignalGroup_supports_aspect(cfg, result.hv)

\* the responses, as the specification words them
CapabilityErrorResponse == SIGNAL_ID \o <<":", "E", ":", "1", LF>>

AckResponse(code) == SIGNAL_ID \o <<":", "A", ":", code, LF>>

\* an error line with code 0: <ID>:E:0#<message>, ended by a newline
IsProtocolErrorResponse(w) ==
  LET n == Len(SIGNAL_ID) IN
    /\ Len(w) > n + 6
    /\ SubSeq(w, 1, n + 5) = SIGNAL_ID \o <<":", "E", ":", "0", "#">>
    /\ w[Len(w)] = LF

\* the aspect the group shows once booted, as the claim states it
BootAspect ==
  IF eeprom \in Codes /\ HVSignalGroup_supports_aspect(cfg, AspectOfCode(eeprom))
  THEN AspectOfCode(eeprom) ELSE "Stop"

\* booted, and no command has been applied since
AwaitingFirstCommand ==
  /\ ret \in {"boot_restore", "feed"}
  /\ pc \notin {"boot", "boot_restore", "switching", "panic"}

\* this step is a run of USART_RX: a byte has been read
ByteRead == Len(received') = Len(received) + 1

\* the positions of the foreground inside the loop, after the feed
LoopBody ==
  {"sleep", "drain", "find", "echo", "parse", "dispatch", "eeprom_write",
   "switching", "ks_switch", "ack"}

InLoop == pc \in LoopBody /\ (pc = "switching" => ret \in {"ks_switch", "ack"})

\* how far the foreground is through the loop body
Rank ==
  CASE pc = "sleep"        -> 0
    [] pc = "drain"        -> 100
    [] pc = "find"         -> 200
    [] pc = "echo"         -> 300
    [] pc = "parse"        -> 400
    [] pc = "dispatch"     -> 500
    [] pc = "eeprom_write" -> 600
    [] pc = "switching" /\ ret = "ks_switch" -> 700 - Len(writes)
    [] pc = "ks_switch"    -> 800
    [] pc = "switching" /\ ret = "ack" -> 900 - Len(writes)
    [] pc = "ack"          -> 1000
    [] OTHER               -> 2000

\* the lamps after the pin writes tr, starting from the lamps before
RECURSIVE LampsAfter(_, _)
LampsAfter(before, tr) ==
  IF tr = << >> THEN before
  ELSE LampsAfter([before EXCEPT ![Head(tr)[1]] = Head(tr)[2]], Tail(tr))

\* the lamps of the new aspect on the signal that lamp l belongs to
NewAspectLamps(l) ==
  CASE l \in MainLamps /\ OnMain -> MainRequired(call.aspect)
    [] l \in AnnLamps /\ call.obj = "HVAnnouncementSignal" ->
         AnnRequired(call.aspect)
    [] l \in AnnLamps /\ call.obj = "HVSignalGroup" ->
         AnnRequired(Derived(call.aspect))
    [] l \in KsLamps /\ call.obj = "KsSignal" -> KsRequired(call.aspect)
    [] OTHER -> {}

\* the j-th pin write of the call switches off a lit lamp that is not part
\* of the new aspect
SwitchesOff(j) ==
  /\ trace[j][2] = FALSE
  /\ LampsAfter(call.before, SubSeq(trace, 1, j - 1))[trace[j][1]]
  /\ trace[j][1] \notin NewAspectLamps(trace[j][1])

\* ASCII whitespace among the bytes sent
IsSpace(b) == b \in {" ", "\t", "\r"}

\* the kind of a reportable error, read off the message of its error line
ErrorKind(r) ==
  IF r.kind # "Err" \/ r.why = << >> THEN "none"
  ELSE LET message == r.why[Len(SIGNAL_ID) + 6] IN
         CASE message = "Missing signal ID in " -> "MissingSignalId"
           [] message = "Missing command in "   -> "MissingCommand"
           [] message = "Unknown command "      -> "UnknownCommand"
           [] OTHER                             -> "other"

\* the line without terminator and comment, and its sections
Content == TakeUntil(TakeUntil(line, LF), "#")

IdSection == TakeUntil(Content, ":")

HasCommandSection == Contains(Content, ":")

CommandSection ==
  IF HasCommandSection THEN TakeUntil(DropThrough(Content, ":"), ":")
  ELSE << >>

\* a parsed line that is not blank and holds no whitespace
ParsedPlain ==
  /\ Parsed
  /\ Content # << >>
  /\ \A i \in 1..Len(Content) : ~IsSpace(Content[i])

\* the persisted byte has been written for the command being processed
AfterPersisting ==
  /\ ParsedSupported
  /\ \/ pc \in {"switching", "ks_switch", "ack", "feed", "panic"}
     \/ pc = "sleep" /\ result.kind = "Ok"

\* main() is before its loop
Booting ==
  \/ pc \in {"boot", "boot_restore"}
  \/ pc = "switching" /\ ret \in {"boot_restore", "feed"}

OnAnnouncement == call.obj \in {"HVAnnouncementSignal", "HVSignalGroup"}

\* the aspect the announcement signal was switched to by the call
AnnouncementAspect ==
  IF call.obj = "HVSignalGroup" THEN Derived(call.aspect) ELSE call.aspect

\* the call switched its signal(s) to Deactivated or Dark
Extinguishing == call.aspect \in {"Deactivated", "Dark"}

RECURSIVE TrimStart(_)
TrimStart(s) ==
  IF s # << >> /\ IsSpace(Head(s)) THEN TrimStart(Tail(s)) ELSE s

RECURSIVE TrimEnd(_)
TrimEnd(s) ==
  IF s # << >> /\ IsSpace(s[Len(s)])
  THEN TrimEnd(SubSeq(s, 1, Len(s) - 1)) ELSE s

\* a line without its comment and with the surrounding whitespace trimmed
Cleaned(l) ==
  TrimEnd(TrimStart(TakeUntil(TakeUntil(l, LF), "#"))) \o <<LF>>

\* what a parse result amounts to, whatever the wording of its message
Outcome(r) ==
  [kind |-> r.kind, hv |-> r.hv, ks |-> r.ks, reported |-> r.why # << >>]

----------------------------------------------------------------------------
(* C1: the dispatch never calls switch_to_aspect on a signal with an       *)
(* aspect that signal's supports_aspect rejects, and the panic inside      *)
(* switch_to_aspect is never reached.  The code violates it: the Ks signal *)
(* is switched without a supports_aspect check.                            *)
C1_DispatchKeepsContract ==
  /\ call.obj # "none" => supports_aspect(cfg, call.obj, call.aspect)
  /\ pc # "panic"

(* C2: at every point between the pin writes of a main signal transition   *)
(* from old to new, green is never lit with red and yellow both dark       *)
(* unless old or new is Proceed, and green and yellow are never lit with   *)
(* red dark unless old or new is Proceed or ProceedSlow.  The code         *)
(* violates it when leaving ProceedSlow for Dark or Deactivated.           *)
C2_NeverMorePermissive ==
  OnMain =>
    /\ (/\ lamp["main.green_lamp"]
        /\ ~lamp["main.red_lamp_1"]
        /\ ~lamp["main.yellow_lamp"])
       => "Proceed" \in {call.old, call.aspect}
    /\ (/\ lamp["main.green_lamp"]
        /\ lamp["main.yellow_lamp"]
        /\ ~lamp["main.red_lamp_1"])
       => {call.old, call.aspect} \cap {"Proceed", "ProceedSlow"} # {}

(* C3: in the pin-write trace of a main signal transition, into            *)
(* ProceedSlow yellow is set high before green is set high, and from       *)
(* Proceed into Stop red is set high before green is set low; a completed  *)
(* transition has made both writes.                                        *)
C3_RestrictiveLampFirst ==
  OnMain =>
    /\ call.aspect = "ProceedSlow" =>
         /\ Written(<<"main.green_lamp", TRUE>>)
              => Before(<<"main.yellow_lamp", TRUE>>, <<"main.green_lamp", TRUE>>)
         /\ call.state = "done" => Written(<<"main.green_lamp", TRUE>>)
    /\ (call.aspect = "Stop" /\ call.old = "Proceed") =>
         /\ Written(<<"main.green_lamp", FALSE>>)
              => Before(<<"main.red_lamp_1", TRUE>>, <<"main.green_lamp", FALSE>>)
         /\ call.state = "done" => Written(<<"main.green_lamp", FALSE>>)

C3_Witness ==
  /\ call.obj = "HVMainSignal"
  /\ call.aspect = "ProceedSlow"
  /\ call.old = "Stop"
  /\ call.state = "done"
  /\ cfg.main_notice

C5_AnnouncementMatchesMain ==
  cfg.dut = "HVSignalGroup" =>
    \A m \in HVMainSignalAspect, x \in Expecting :
      (/\ Lit(MainLamps) = MainRequired(m)
       /\ Lit(AnnLamps \ {"ann.notice_lamp"}) = AnnRequired(x))
      => x = Derived(m)

C7_SupportsIffLampsPresent ==
  \A a \in HVMainSignalAspect :
    /\ HVMainSignal_supports_aspect(cfg, a) <=> MainRequired(a) \subseteq Present(cfg)
    /\ HVAnnouncementSignal_supports_aspect(cfg, Derived(a))
         <=> AnnRequired(Derived(a)) \subseteq Present(cfg)
    /\ HVSignalGroup_supports_aspect(cfg, a)
         <=> /\ MainRequired(a) \subseteq Present(cfg)
             /\ AnnRequired(Derived(a)) \subseteq Present(cfg)

C7_Witness ==
  /\ cfg.dut = "HVSignalGroup"
  /\ ~cfg.yellow_lamp
  /\ cfg.main_notice
  /\ ~HVSignalGroup_supports_aspect(cfg, "ProceedSlow")
  /\ call.state = "done"
  /\ call.aspect = "Deactivated"

(* C8: a line <ID>:<CODE> with the configured identifier and a code in     *)
(* 0, 1, 2, A, D parses to the aspect of that code, and the code is the    *)
(* wire identifier of that aspect (command_id, from_command_id).           *)
C8_CodeToAspect ==
  \A code \in Codes :
    (Parsed /\ line = SIGNAL_ID \o <<":", code, LF>>) =>
      /\ result.kind = "Ok"
      /\ result.hv = AspectOfCode(code)
      /\ command_id(result.hv) = code
      /\ from_command_id(code) = result.hv

C8_Witness ==
  /\ pc = "dispatch"
  /\ line = <<"F", ":", "2", LF>>
  /\ result.kind = "Ok"
  /\ result.hv = "ProceedSlow"

(* C9: a line whose leading identifier section differs from the configured *)
(* identifier parses to the ignorable result whatever follows, and no lamp *)
(* and not the persisted byte changes while it is processed.               *)
C9_ForeignLineIgnored ==
  Foreign =>
    /\ Parsed => result = Ignored
    /\ lamp = snap.lamp
    /\ eeprom = snap.eeprom
    /\ pc \in {"echo", "parse", "dispatch", "feed"}

C9_Witness ==
  /\ pc = "feed"
  /\ line = <<"G", ":", "1", LF>>
  /\ result = Ignored
  /\ lamp["main.red_lamp_1"]

C11_CommentStrippedAndTrimmed ==
  Parsed =>
    /\ Outcome(result) = Outcome(get_next_command(Cleaned(line)))
    /\ line = CommentedLine \o <<LF>> => result = Ok("ProceedSlow", "ExpectStop")

(* C12: when a line addressed to this device parses to an aspect the       *)
(* signal group does not support, the response is <ID>:E:1 (after the      *)
(* echo of the line), and every lamp and the persisted byte are what they  *)
(* were before the line was processed.                                     *)
C12_UnsupportedRejected ==
  ParsedUnsupported =>
    /\ lamp = snap.lamp
    /\ eeprom = snap.eeprom
    /\ call = NoCall
    /\ pc \in {"dispatch", "feed"}
    /\ pc = "dispatch" => tx = line
    /\ pc = "feed" => tx = line \o CapabilityErrorResponse

C12_Witness ==
  /\ pc = "feed"
  /\ line = <<"F", ":", "2", LF>>
  /\ ~cfg.yellow_lamp
  /\ tx = line \o <<"F", ":", "E", ":", "1", LF>>
  /\ lamp["main.red_lamp_1"]

(* C13: for a line addressed to this device that is a protocol error       *)
(* (missing command, unknown command code) the device writes an error line *)
(* with code 0, <ID>:E:0#<message>, goes on to the top of the loop, and    *)
(* leaves every lamp and the persisted byte unchanged.                     *)
C13_ProtocolErrorReported ==
  (Addressed /\ Parsed /\ result.kind # "Ok") =>
    /\ IsProtocolErrorResponse(result.why)
    /\ lamp = snap.lamp
    /\ eeprom = snap.eeprom
    /\ call = NoCall
    /\ pc \in {"dispatch", "feed"}
    /\ pc = "dispatch" => tx = line
    /\ pc = "feed" => tx = line \o result.why

C13_Witness ==
  /\ pc = "feed"
  /\ line = <<"F", ":", "G", LF>>
  /\ result.kind = "Err"
  /\ tx = line \o result.why
  /\ SubSeq(result.why, 1, 5) = <<"F", ":", "E", ":", "0">>
  /\ lamp["main.red_lamp_1"]

(* C14: for every line addressed to this device whose aspect is supported  *)
(* the device writes the acknowledgement <ID>:A:<CODE> with the wire       *)
(* identifier of the aspect, and only once the transition is complete and  *)
(* the lamps show that aspect.  The code violates it: for F:A the Ks       *)
(* signal panics after the group has been switched, and no                 *)
(* acknowledgement is written.                                             *)
C14_AckAfterTransition ==
  (ParsedSupported /\ pc \notin {"dispatch", "eeprom_write"}) =>
    /\ pc \in {"switching", "ks_switch", "ack", "feed"}
    /\ pc \in {"switching", "ks_switch", "ack"} => tx = line
    /\ pc = "feed" =>
         /\ tx = line \o AckResponse(command_id(result.hv))
         /\ shown.hv = result.hv
         /\ Lit(MainLamps) = MainRequired(result.hv)
         /\ Lit(AnnLamps) = AnnRequiredAt(cfg, Derived(result.hv))

(* C15: for every applied command the persisted byte holds the aspect's    *)
(* wire identifier before the first lamp pin of the transition is written; *)
(* it is written only for a parsed aspect the group supports; and at the   *)
(* top of the loop the persisted byte, when it names an aspect the group   *)
(* supports, is the wire identifier of the main aspect last applied.       *)
C15_PersistedBeforeLamps ==
  /\ (Processing /\ call # NoCall) =>
        /\ ParsedSupported
        /\ eeprom = command_id(result.hv)
  /\ (Processing /\ eeprom # snap.eeprom) =>
        /\ ParsedSupported
        /\ eeprom = command_id(result.hv)
  /\ ~Processing => eeprom = snap.eeprom
  /\ (pc = "feed" /\ ParsedSupported) =>
        /\ eeprom = command_id(result.hv)
        /\ shown.hv = result.hv
  /\ (pc \in {"feed", "sleep"} /\ eeprom \in Codes
       /\ HVSignalGroup_supports_aspect(cfg, AspectOfCode(eeprom))) =>
        command_id(shown.hv) = eeprom

C15_Witness ==
  /\ pc = "feed"
  /\ line = <<"F", ":", "2", LF>>
  /\ eeprom = "2"
  /\ snap.eeprom = "1"
  /\ shown.hv = "ProceedSlow"

(* C16: at boot the group is first switched to Stop; it is then switched   *)
(* to the persisted aspect iff the persisted byte is a recognised wire     *)
(* identifier and the group supports that aspect; for every other byte the *)
(* group is at Stop when the first command is awaited.                     *)
C16_BootRestoresSupported ==
  /\ pc = "boot_restore" =>
        /\ shown.hv = "Stop"
        /\ Lit(MainLamps) = MainRequired("Stop")
  /\ (pc = "switching" /\ ret = "feed") =>
        /\ call.old = "Stop"
        /\ call.aspect = BootAspect
        /\ eeprom \in Codes
        /\ HVSignalGroup_supports_aspect(cfg, call.aspect)
  /\ AwaitingFirstCommand =>
        /\ shown.hv = BootAspect
        /\ Lit(MainLamps) = MainRequired(BootAspect)
        /\ ret = "feed" <=>
              /\ eeprom \in Codes
              /\ HVSignalGroup_supports_aspect(cfg, AspectOfCode(eeprom))

C16_Witness ==
  /\ pc = "sleep"
  /\ ret = "feed"
  /\ eeprom = "A"
  /\ shown.hv = "Deactivated"
  /\ lamp["main.notice_lamp"]

(* C17: the queue never holds more than its capacity of 32 bytes, and a    *)
(* byte received while the queue is full is discarded: the handler leaves  *)
(* the queue as it is and returns to the foreground.  The code violates    *)
(* it: ArrayVec::push panics on a full queue.                              *)
C17_FullQueueDropsByte ==
  /\ [](Len(SERIAL_BUFFER) <= SERIAL_BUFFER_CAPACITY)
  /\ [][(ByteRead /\ Len(SERIAL_BUFFER) = SERIAL_BUFFER_CAPACITY) =>
          /\ SERIAL_BUFFER' = SERIAL_BUFFER
          /\ pc' \in {pc, "drain"}]_vars

(* C18: as long as the queue does not overflow, the bytes received are the *)
(* line dispatched followed by the accumulation buffer and the queue, in   *)
(* arrival order; a dispatched line ends at its first newline; and every   *)
(* step either leaves the bytes held as they are, appends the byte just    *)
(* read at the end, or takes the dispatched line off the front.            *)
C18_StreamPreserved ==
  /\ [](pc # "panic" =>
          /\ received = line \o serial_buffer \o SERIAL_BUFFER
          /\ line # << >> =>
               /\ line[Len(line)] = LF
               /\ \A i \in 1..(Len(line) - 1) : line[i] # LF)
  /\ [][pc' # "panic" /\ pc # "panic" =>
          \/ Pending' = Pending
          \/ ByteRead /\ Pending' = Append(Pending, received'[Len(received')])
          \/ /\ line = << >>
             /\ line' # << >>
             /\ Pending = line' \o Pending']_vars

C18_Witness ==
  /\ pc = "dispatch"
  /\ line = <<"F", LF>>
  /\ serial_buffer = <<":">>
  /\ SERIAL_BUFFER = <<"2", LF>>
  /\ received = <<"F", LF, ":", "2", LF>>

(* C19: the line-accumulation buffer never holds more than a fixed number  *)
(* of bytes, whatever is sent: it stops accepting bytes at its capacity.   *)
(* The code violates it: the drain appends every queued byte to a Vec, so  *)
(* a run of bytes without newline makes the buffer as long as the run; it  *)
(* passes the capacity of the queue, the one fixed capacity in the code.   *)
C19_LineBufferBounded ==
  Len(serial_buffer) <= SERIAL_BUFFER_CAPACITY

(* C20: the watchdog is fed once per loop iteration, at most one line is   *)
(* dispatched between two feeds, and every step of the loop body leads on  *)
(* towards the feed at the top of the loop.  The code violates it: the     *)
(* panic of the Ks signal for F:A leaves the loop.                         *)
C20_EveryIterationFeeds ==
  [][/\ pc = "feed" => pc' = "sleep"
     /\ (line' # line /\ line' # << >>) => (line = << >> /\ pc = "find")
     /\ InLoop =>
          /\ pc' \in LoopBody \cup {"feed"}
          /\ pc' = "feed" \/ Rank' > Rank \/ UNCHANGED <<pc, writes>>]_vars

(* C21: in every transition of an HV main, HV announcement or Ks signal,   *)
(* when a lit lamp that is not part of the new aspect is switched off,     *)
(* every lamp of the new aspect is already lit; the notice lamp of the     *)
(* announcement signal is not changed before that.  The code violates it:  *)
(* HVAnnouncementSignal::switch_to_aspect writes the notice lamp first.    *)
C21_NewLampsBeforeOldOff ==
  call.obj # "none" =>
    \A j \in 1..Len(trace) :
      SwitchesOff(j) =>
        \A r \in NewAspectLamps(trace[j][1]) :
          LampsAfter(call.before, SubSeq(trace, 1, j - 1))[r]

(* C22: in every HV main signal transition that extinguishes the green     *)
(* lamp and a restrictive lamp (red or yellow) that were both lit, green   *)
(* is set low before the restrictive lamp is set low.  The code violates   *)
(* it from ProceedSlow to Dark and to Deactivated: yellow goes first.      *)
C22_GreenOffBeforeRestrictive ==
  OnMain =>
    \A r \in {"main.red_lamp_1", "main.yellow_lamp"} :
      (/\ call.before["main.green_lamp"]
       /\ call.before[r]
       /\ {r, "main.green_lamp"} \cap MainRequired(call.aspect) = {}
       /\ Written(<<r, FALSE>>))
      => Before(<<"main.green_lamp", FALSE>>, <<r, FALSE>>)

C24_ErrorKinds ==
  ParsedPlain =>
    /\ IdSection = << >> => ErrorKind(result) = "MissingSignalId"
    /\ (IdSection = SIGNAL_ID /\ CommandSection = << >>) =>
         ErrorKind(result) = "MissingCommand"
    /\ (/\ IdSection = SIGNAL_ID
        /\ CommandSection # << >>
        /\ CommandSection \notin {<<code>> : code \in Codes}) =>
         ErrorKind(result) = "UnknownCommand"

(* C25: when the first command is awaited, the HV signal group and the Ks  *)
(* signal have each been switched to an aspect (Stop, or the restored      *)
(* one); no signal is in the lamp state its pins were constructed with.    *)
(* The code violates it: main() never switches ks_signal before the loop.  *)
C25_EverySignalSetAtBoot ==
  AwaitingFirstCommand =>
    /\ shown.hv = BootAspect
    /\ shown.ks # "None"
    /\ Lit(KsLamps) = KsRequired(shown.ks)

(* C26: a reset at any point after the persisted byte was written for a    *)
(* supported aspect X leaves the byte at X, and the boot that follows      *)
(* switches the group to Stop and then to X, so that the group displays X  *)
(* when the first command is awaited.                                      *)
C26_ResetRestoresPersisted ==
  /\ [](AfterPersisting =>
          /\ eeprom = command_id(result.hv)
          /\ HVSignalGroup_supports_aspect(cfg, AspectOfCode(eeprom)))
  /\ [][pc' = "boot" => eeprom' = eeprom]_vars
  /\ [](Booting =>
          /\ shown.hv \in {"None", "Stop"}
          /\ call.obj # "none" => call.aspect \in {"Stop", BootAspect}
          /\ ret = "feed" => (call.old = "Stop" /\ call.aspect = BootAspect))
  /\ [](AwaitingFirstCommand =>
          /\ shown.hv = BootAspect
          /\ Lit(MainLamps) = MainRequired(BootAspect)
          /\ Lit(AnnLamps) = AnnRequiredAt(cfg, Derived(BootAspect)))

C26_Witness ==
  /\ pc = "feed"
  /\ ret = "feed"
  /\ eeprom = "1"
  /\ snap.eeprom = "1"
  /\ snap.lamp["main.red_lamp_1"]
  /\ snap.lamp["main.green_lamp"]
  /\ shown.hv = "Proceed"
  /\ Lit(MainLamps) = {"main.green_lamp"}

(* C27: a step the foreground takes with interrupts disabled only copies   *)
(* and clears the shared queue: it transmits nothing on the serial port    *)
(* and parses nothing.                                                     *)
C27_CriticalSectionOnlyCopies ==
  [][interrupt_free => (tx' = tx /\ result' = result)]_vars

(* C28: a complete line that has reached the accumulation buffer is        *)
(* dispatched without a further byte: the loop never waits in sleep() for  *)
(* the next receive interrupt while its buffer holds a complete line.      *)
C28_BufferedLineNotWaiting ==
  ~(pc = "sleep" /\ Contains(serial_buffer, LF))

====
